---- MODULE Spec2Model ----
(***************************************************************************)
(* Model of capnpy/blob.py: the Blob accessor that reads primitives,       *)
(* structs, lists, text and data out of an immutable message buffer by     *)
(* resolving pointer words.                                                *)
(*                                                                         *)
(* The buffer is a sequence of bytes (Python index i is element i+1).  A   *)
(* 64-bit integer is kept as its eight base-256 digits, least significant  *)
(* first, because the checker's integers are 32 bits wide; the fields of a *)
(* pointer are decoded from those digits.  The classes of capnpy.ptr,      *)
(* capnpy.type, capnpy.struct_ and capnpy.list are not part of blob.py;    *)
(* they are modelled from the wire layout of the specification.            *)
(***************************************************************************)
EXTENDS Integers, Sequences, FiniteSets, TLC

VARIABLES buf, segment_offsets, self, res, msg

vars == <<buf, segment_offsets, self, res, msg>>

(* ------------------------------ bounds --------------------------------- *)

\* number of 8-byte words of the message buffer
BufWords == 5
\* largest |word offset| written into a struct or list pointer
MaxOff == 3
\* largest "short" item count written into a list pointer
MaxCount == 3
\* largest word offset written into a far pointer
MaxFar == 2
\* largest data-section size written into a struct pointer
MaxSize == 2

(* --------------------------- results ----------------------------------- *)

None == [tag |-> "None"]
Ok(v) == [tag |-> "ok", val |-> v]
Raise(exc, at) == [tag |-> "raise", exc |-> exc, at |-> at]
\* an accessor: its class, its byte offset in the buffer, and (to state the
\* properties of chained reads) the read that returned it and the position of
\* the pointer that read followed
Blob(offset, op, at) == [cls |-> "Blob", _offset |-> offset, op |-> op, at |-> at]
NoBlob == [cls |-> "none", _offset |-> 0, op |-> "none", at |-> 0]

(* --------------------------- capnpy.type ------------------------------- *)

Types_uint8 == [fmt |-> "B", size |-> 1, signed |-> FALSE]
Types_int16 == [fmt |-> "h", size |-> 2, signed |-> TRUE]
Types_int32 == [fmt |-> "i", size |-> 4, signed |-> TRUE]
Types_int64 == [fmt |-> "q", size |-> 8, signed |-> TRUE]
Types == {Types_uint8, Types_int16, Types_int32, Types_int64}

(* --------------------------- capnpy.ptr -------------------------------- *)

StructPtr_KIND == 0
ListPtr_KIND == 1
FarPtr_KIND == 2
ListPtr_SIZE_8 == 2

\* low 2 bits
Ptr_kind(ptr) == ptr[1] % 4

\* bits [2:32), signed
Ptr_offset(ptr) ==
    LET raw == (ptr[1] \div 4) + ptr[2] * 64 + ptr[3] * 16384 + ptr[4] * 4194304
    IN  IF raw >= 536870912 THEN raw - 1073741824 ELSE raw

\* the displacement is counted from the word that follows the pointer
Ptr_deref(ptr, offset) == offset + (Ptr_offset(ptr) + 1) * 8

\* bits [32:48) and [48:64)
StructPtr_data_size(ptr) == ptr[5] + ptr[6] * 256
StructPtr_ptrs_size(ptr) == ptr[7] + ptr[8] * 256

\* bits [32:35) and [35:64)
ListPtr_size_tag(ptr) == ptr[5] % 8
ListPtr_item_count(ptr) ==
    (ptr[5] \div 8) + ptr[6] * 32 + ptr[7] * 8192 + ptr[8] * 2097152

\* bit 2, bits [3:32), bits [32:64)
FarPtr_landing_pad(ptr) == (ptr[1] \div 4) % 2
FarPtr_offset(ptr) ==
    (ptr[1] \div 8) + ptr[2] * 32 + ptr[3] * 8192 + ptr[4] * 2097152
FarPtr_target(ptr) ==
    ptr[5] + ptr[6] * 256 + ptr[7] * 65536 + ptr[8] * 16777216

\* a pointer word with its bits [2:32) cleared
Ptr_zero_offset(ptr) ==
    [i \in 1..8 |-> IF i = 1 THEN ptr[1] % 4 ELSE IF i <= 4 THEN 0 ELSE ptr[i]]

(* ------------------------- struct.unpack_from -------------------------- *)

\* the little-endian integer held by the bytes bs (1, 2 or 4 of them)
LittleEndian(bs, signed) ==
    LET n   == Len(bs)
        top == IF signed /\ bs[n] >= 128 THEN bs[n] - 256 ELSE bs[n]
    IN  IF n = 1 THEN top
        ELSE IF n = 2 THEN bs[1] + top * 256
        ELSE bs[1] + bs[2] * 256 + bs[3] * 65536 + top * 16777216

\* struct.unpack_from('<' + t.fmt, b, offset)[0]: a negative offset counts
\* from the end of the buffer; the t.size bytes must lie inside it
unpack_from(t, b, offset) ==
    LET pos == IF offset < 0 THEN offset + Len(b) ELSE offset
    IN  IF pos < 0 \/ Len(b) - pos < t.size
        THEN Raise("struct.error", "blob.py:32")
        ELSE LET bs == SubSeq(b, pos + 1, pos + t.size)
             IN  Ok(IF t.size = 8 THEN bs ELSE LittleEndian(bs, t.signed))

\* b[start:end] of a Python byte string
Slice(b, start, end) ==
    LET norm(i) == IF i < 0 THEN (IF i + Len(b) < 0 THEN 0 ELSE i + Len(b))
                   ELSE IF i > Len(b) THEN Len(b) ELSE i
        s == norm(start)
        e == norm(end)
    IN  IF s >= e THEN <<>> ELSE SubSeq(b, s + 1, e)

(* ------------------------ message construction ------------------------- *)

\* A pointer to be written into the buffer: kind is "null", "struct" (a = data
\* words, b = pointer words), "list" (a = size tag, b = item count), "far"
\* (a = segment id, b = double-far flag, off = word offset in the segment) or
\* "other" (the reserved kind bits).
PtrSpec(kind, off, a, b) == [kind |-> kind, off |-> off, a |-> a, b |-> b]

NullSpec == PtrSpec("null", 0, 0, 0)

\* the eight bytes of a word with the given kind bits, bits [2:32) and the
\* four bytes of bits [32:64)
WordBytes(kind, lo30, hi) ==
    << (lo30 % 64) * 4 + kind, (lo30 \div 64) % 256,
       (lo30 \div 16384) % 256, lo30 \div 4194304 >> \o hi

Encode(p) ==
    CASE p.kind = "null"   -> <<0, 0, 0, 0, 0, 0, 0, 0>>
      [] p.kind = "struct" ->
            WordBytes(0, p.off % 1073741824,
                      <<p.a % 256, p.a \div 256, p.b % 256, p.b \div 256>>)
      [] p.kind = "list"   ->
            WordBytes(1, p.off % 1073741824,
                      <<p.a + (p.b % 32) * 8, (p.b \div 32) % 256,
                        (p.b \div 8192) % 256, p.b \div 2097152>>)
      [] p.kind = "far"    ->
            WordBytes(2, p.b + 2 * p.off,
                      <<p.a % 256, p.a \div 256, 0, 0>>)
      [] OTHER             -> WordBytes(3, 1, <<1, 0, 0, 0>>)

\* the bytes a message holds where no pointer is written: "hi\0" at the
\* start of word 2, and distinct values everywhere else
DataByte(i) ==
    IF i = 16 THEN 104 ELSE IF i = 17 THEN 105 ELSE IF i = 18 THEN 0 ELSE i + 1

BufLen == 8 * BufWords

Offsets == -MaxOff .. MaxOff

\* an item count that overruns the buffer from every start but 0
LongCount == BufLen

StructSpecs ==
    {PtrSpec("struct", k, d, d + 1) : k \in Offsets, d \in 1..MaxSize}

ListSpecs ==
    {PtrSpec("list", k, ListPtr_SIZE_8, n) :
        k \in Offsets, n \in (0..MaxCount) \cup {LongCount}}
    \cup {PtrSpec("list", k, t, 3) : k \in {0, 1}, t \in (0..7) \ {ListPtr_SIZE_8}}

FarSpecs ==
    {PtrSpec("far", w, s, d) : w \in 0..MaxFar, s \in 0..2, d \in {0, 1}}

MainSpecs ==
    {NullSpec, PtrSpec("other", 0, 0, 0)} \cup StructSpecs \cup ListSpecs \cup FarSpecs

\* what a single far pointer may find on its landing pad
PadSpecs ==
    {NullSpec, PtrSpec("other", 0, 0, 0), PtrSpec("far", 0, 0, 0),
     PtrSpec("list", 0, ListPtr_SIZE_8, 3), PtrSpec("list", 1, ListPtr_SIZE_8, 2),
     PtrSpec("list", 0, 5, 1)}
    \cup {PtrSpec("struct", k, 1, 1) : k \in -1..1}

\* the two words of a double-far landing pad
Pad0Specs == {PtrSpec("far", 0, 1, 0), PtrSpec("far", 2, 0, 0)}
Pad1Specs ==
    {PtrSpec("struct", 0, 1, 1), PtrSpec("list", 0, ListPtr_SIZE_8, 3),
     PtrSpec("list", 0, 5, 1), PtrSpec("far", 0, 0, 0)}

SegmentTables == {<<0, 16>>, <<0, 24>>}

\* the message: the main pointer at byte `at`, the landing pad (if the main
\* pointer is far and the pad fits) at byte `padat`, data elsewhere
Message(at, main, segs, pad, pad1) ==
    LET padat == IF main.kind = "far" /\ main.a < Len(segs)
                 THEN segs[main.a + 1] + 8 * main.off ELSE -1
        m  == Encode(main)
        p0 == Encode(pad)
        p1 == Encode(pad1)
        byte(i) ==
            IF i >= at /\ i < at + 8 THEN m[i - at + 1]
            ELSE IF padat >= 0 /\ i >= padat /\ i < padat + 8 THEN p0[i - padat + 1]
            ELSE IF padat >= 0 /\ main.b = 1 /\ i >= padat + 8 /\ i < padat + 16
                 THEN p1[i - padat - 7]
            ELSE DataByte(i)
    IN  [buf |-> [i \in 1..BufLen |-> byte(i - 1)],
         segs |-> segs,
         msg |-> [at |-> at, main |-> main, padat |-> padat,
                  pad |-> pad, pad1 |-> pad1]]

Messages ==
    {Message(at, main, <<0, 24>>, NullSpec, NullSpec) :
        at \in {0, 8}, main \in MainSpecs \ FarSpecs}
    \cup {Message(at, main, segs, pad, NullSpec) :
        at \in {0, 8}, main \in {f \in FarSpecs : f.b = 0},
        segs \in SegmentTables, pad \in PadSpecs}
    \cup {Message(at, main, segs, pad, pad1) :
        at \in {0, 8}, main \in {f \in FarSpecs : f.b = 1},
        segs \in SegmentTables, pad \in Pad0Specs, pad1 \in Pad1Specs}

(* ------------------------------ Blob ----------------------------------- *)

\* mutant: the construction assertion of line 27 is missing
from_buffer_unchecked(cls, offset) == Ok([cls |-> cls, _offset |-> offset])

\* Blob.from_buffer: the accessor is a view (class, offset) of the shared
\* buffer and segment table
from_buffer(cls, offset) ==
    IF offset < Len(buf)
    THEN Ok([cls |-> cls, _offset |-> offset])
    ELSE Raise("AssertionError", "blob.py:27")

_read_primitive(blob, offset, t) == unpack_from(t, buf, blob._offset + offset)

\* Ptr(ptr): the int64 kept as its eight digits
_read_ptr(blob, offset) == _read_primitive(blob, offset, Types_int64)

IsZero(ptr) == \A i \in 1..8 : ptr[i] = 0

\* FarPtr.follow: the landing pad's position in the buffer and the pointer
\* found there; for a double-far pointer, the position one word before the
\* content and the pad's second word with a zero offset
FarPtr_follow(ptr, blob) ==
    LET target == FarPtr_target(ptr) IN
    IF target >= Len(segment_offsets) THEN Raise("BoundsError", "spec:4.2")
    ELSE
    LET offset == segment_offsets[target + 1] + FarPtr_offset(ptr) * 8
        w0 == unpack_from(Types_int64, buf, offset)
        w1 == unpack_from(Types_int64, buf, offset + 8)
    IN  IF offset + 8 > Len(buf) THEN Raise("BoundsError", "spec:4.2")
        ELSE IF FarPtr_landing_pad(ptr) = 0
        THEN Ok([offset |-> offset, ptr |-> w0.val])
        ELSE IF offset + 16 > Len(buf) THEN Raise("BoundsError", "spec:4.2")
        ELSE IF FarPtr_target(w0.val) >= Len(segment_offsets)
        THEN Raise("BoundsError", "spec:4.2")
        ELSE IF Ptr_kind(w1.val) = FarPtr_KIND
        THEN Raise("DecodeError", "spec:4.2")
        ELSE Ok([offset |-> segment_offsets[FarPtr_target(w0.val) + 1]
                            + FarPtr_offset(w0.val) * 8 - 8,
                 ptr |-> Ptr_zero_offset(w1.val)])

\* mutant: the kind assertion of line 117 is missing
_deref_ptrstruct_any_kind(blob, offset) ==
    LET r == _read_ptr(blob, offset) IN
    IF r.tag = "raise" THEN r
    ELSE IF IsZero(r.val) THEN None
    ELSE LET f == IF Ptr_kind(r.val) = FarPtr_KIND
                  THEN FarPtr_follow(r.val, blob)
                  ELSE Ok([offset |-> offset, ptr |-> r.val])
         IN  IF f.tag = "raise" THEN f
             ELSE Ok(Ptr_deref(f.val.ptr, f.val.offset))

_deref_ptrstruct(blob, offset) ==
    LET r == _read_ptr(blob, offset) IN
    IF r.tag = "raise" THEN r
    ELSE IF IsZero(r.val) THEN None
    ELSE LET f == IF Ptr_kind(r.val) = FarPtr_KIND
                  THEN FarPtr_follow(r.val, blob)
                  ELSE Ok([offset |-> offset, ptr |-> r.val])
         IN  IF f.tag = "raise" THEN f
             ELSE IF Ptr_kind(f.val.ptr) # StructPtr_KIND
             THEN Raise("AssertionError", "blob.py:117")
             ELSE Ok(Ptr_deref(f.val.ptr, f.val.offset))

\* mutant: the null test of line 130 is missing
_deref_ptrlist_no_null_test(blob, offset) ==
    LET r == _read_ptr(blob, offset) IN
    IF r.tag = "raise" THEN r
    ELSE LET f == IF Ptr_kind(r.val) = FarPtr_KIND
                  THEN FarPtr_follow(r.val, blob)
                  ELSE Ok([offset |-> offset, ptr |-> r.val])
         IN  IF f.tag = "raise" THEN f
             ELSE IF Ptr_kind(f.val.ptr) # ListPtr_KIND
             THEN Raise("AssertionError", "blob.py:136")
             ELSE Ok([offset |-> Ptr_deref(f.val.ptr, f.val.offset),
                      size_tag |-> ListPtr_size_tag(f.val.ptr),
                      item_count |-> ListPtr_item_count(f.val.ptr)])

_deref_ptrlist(blob, offset) ==
    LET r == _read_ptr(blob, offset) IN
    IF r.tag = "raise" THEN r
    ELSE IF IsZero(r.val) THEN None
    ELSE LET f == IF Ptr_kind(r.val) = FarPtr_KIND
                  THEN FarPtr_follow(r.val, blob)
                  ELSE Ok([offset |-> offset, ptr |-> r.val])
         IN  IF f.tag = "raise" THEN f
             ELSE IF Ptr_kind(f.val.ptr) # ListPtr_KIND
             THEN Raise("AssertionError", "blob.py:136")
             ELSE Ok([offset |-> Ptr_deref(f.val.ptr, f.val.offset),
                      size_tag |-> ListPtr_size_tag(f.val.ptr),
                      item_count |-> ListPtr_item_count(f.val.ptr)])

\* mutant: the offset of the accessor itself is not added (line 51)
_read_struct_relative(blob, offset) ==
    LET d == _deref_ptrstruct(blob, offset) IN
    IF d.tag # "ok" THEN d
    ELSE from_buffer("Struct", d.val)

_read_struct(blob, offset) ==
    LET d == _deref_ptrstruct(blob, offset) IN
    IF d.tag # "ok" THEN d
    ELSE from_buffer("Struct", blob._offset + d.val)

\* listcls.from_buffer: the construction contract, and the size tag and item
\* count handed to the constructor
List_from_buffer(offset, size_tag, item_count) ==
    IF offset < Len(buf)
    THEN Ok([cls |-> "List", _offset |-> offset,
             size_tag |-> size_tag, item_count |-> item_count])
    ELSE Raise("BoundsError", "spec:6")

_read_list(blob, offset) ==
    LET d == _deref_ptrlist(blob, offset) IN
    IF d.tag # "ok" THEN d
    ELSE List_from_buffer(blob._offset + d.val.offset,
                          d.val.size_tag, d.val.item_count)

\* mutant: the trailing NUL is not dropped (line 68)
_read_string_keep_nul(blob, offset) ==
    LET d == _deref_ptrlist(blob, offset) IN
    IF d.tag # "ok" THEN d
    ELSE IF d.val.size_tag # ListPtr_SIZE_8
    THEN Raise("AssertionError", "blob.py:66")
    ELSE LET start == blob._offset + d.val.offset
             end   == start + d.val.item_count
         IN  Ok(Slice(buf, start, end))

_read_string(blob, offset) ==
    LET d == _deref_ptrlist(blob, offset) IN
    IF d.tag # "ok" THEN d
    ELSE IF d.val.size_tag # ListPtr_SIZE_8
    THEN Raise("AssertionError", "blob.py:66")
    ELSE LET start == blob._offset + d.val.offset
             end   == start + d.val.item_count - 1
         IN  Ok(Slice(buf, start, end))

\* mutant: the size tag assertion of line 75 is missing
_read_data_any_tag(blob, offset) ==
    LET d == _deref_ptrlist(blob, offset) IN
    IF d.tag # "ok" THEN d
    ELSE LET start == blob._offset + d.val.offset
             end   == start + d.val.item_count
         IN  Ok(Slice(buf, start, end))

_read_data(blob, offset) ==
    LET d == _deref_ptrlist(blob, offset) IN
    IF d.tag # "ok" THEN d
    ELSE IF d.val.size_tag # ListPtr_SIZE_8
    THEN Raise("AssertionError", "blob.py:75")
    ELSE LET start == blob._offset + d.val.offset
             end   == start + d.val.item_count
         IN  Ok(Slice(buf, start, end))

_read_group(blob) == from_buffer("Group", blob._offset)

\* GenericStruct.from_buffer_and_size: the construction contract, and the
\* sizes handed to the constructor
GenericStruct_from_buffer_and_size(offset, data_size, ptrs_size) ==
    IF offset < Len(buf)
    THEN Ok([cls |-> "GenericStruct", _offset |-> offset,
             data_size |-> data_size, ptrs_size |-> ptrs_size])
    ELSE Raise("BoundsError", "spec:6")

\* no far pointer is followed here: the kind tested is the kind of the
\* pointer word of the field itself
_follow_generic_pointer(blob, ptr_offset) ==
    LET r == _read_ptr(blob, ptr_offset) IN
    IF r.tag = "raise" THEN r
    ELSE IF IsZero(r.val) THEN None
    ELSE IF Ptr_kind(r.val) = 3 THEN Raise("ValueError", "spec:4.1")
    ELSE LET blob_offet == Ptr_deref(r.val, ptr_offset) IN
         IF Ptr_kind(r.val) = StructPtr_KIND
         THEN GenericStruct_from_buffer_and_size(
                  blob._offset + blob_offet,
                  StructPtr_data_size(r.val), StructPtr_ptrs_size(r.val))
         ELSE IF Ptr_kind(r.val) = ListPtr_KIND
         THEN List_from_buffer(blob._offset + blob_offet,
                  ListPtr_size_tag(r.val), ListPtr_item_count(r.val))
         ELSE Raise("AssertionError", "blob.py:107")

(* ------------------------------ actions -------------------------------- *)

\* offsets at which the host constructs an accessor
HostOffsets == {8 * w : w \in 0..BufWords}
\* pointer-field offsets and primitive-field offsets used by the reads
PtrOffsets == {0, 8}
PrimOffsets == {0, 3, 8}

Call(op, blob, offset, size, out) ==
    [op |-> op, A |-> blob._offset, offset |-> offset, size |-> size, out |-> out]

Init ==
    /\ \E m \in Messages :
        /\ buf = m.buf
        /\ segment_offsets = m.segs
        /\ msg = m.msg
    /\ self = NoBlob
    /\ res = Call("none", NoBlob, 0, 0, None)

\* the accessor returned becomes the one the next reads are issued from (the
\* methods of Blob are the same whatever subclass the accessor has); a group
\* is a view of the struct it was read from
Current(op, at, out) ==
    IF out.tag = "ok" THEN Blob(out.val._offset, op, at) ELSE self

\* the host builds an accessor at a byte offset of its choice
HostFromBuffer ==
    \E offset \in HostOffsets :
        LET out == from_buffer("Blob", offset) IN
        /\ res' = Call("from_buffer", [_offset |-> offset], 0, 0, out)
        /\ self' = Current("from_buffer", offset, out)
        /\ UNCHANGED <<buf, segment_offsets, msg>>

ReadPrimitive ==
    /\ self.cls # "none"
    /\ \E offset \in PrimOffsets, t \in Types :
        /\ res' = Call("read_primitive", self, offset, t.size,
                       _read_primitive(self, offset, t))
        /\ UNCHANGED <<buf, segment_offsets, self, msg>>

ReadStruct ==
    /\ self.cls # "none"
    /\ \E offset \in PtrOffsets :
        LET out == _read_struct(self, offset) IN
        /\ res' = Call("read_struct", self, offset, 0, out)
        /\ self' = Current("read_struct", self._offset + offset, out)
        /\ UNCHANGED <<buf, segment_offsets, msg>>

ReadList ==
    /\ self.cls # "none"
    /\ \E offset \in PtrOffsets :
        /\ res' = Call("read_list", self, offset, 0, _read_list(self, offset))
        /\ UNCHANGED <<buf, segment_offsets, self, msg>>

ReadString ==
    /\ self.cls # "none"
    /\ \E offset \in PtrOffsets :
        /\ res' = Call("read_string", self, offset, 0, _read_string(self, offset))
        /\ UNCHANGED <<buf, segment_offsets, self, msg>>

ReadData ==
    /\ self.cls # "none"
    /\ \E offset \in PtrOffsets :
        /\ res' = Call("read_data", self, offset, 0, _read_data(self, offset))
        /\ UNCHANGED <<buf, segment_offsets, self, msg>>

ReadGroup ==
    /\ self.cls # "none"
    /\ LET out == _read_group(self) IN
        /\ res' = Call("read_group", self, 0, 0, out)
        /\ self' = Current(self.op, self.at, out)
        /\ UNCHANGED <<buf, segment_offsets, msg>>

\* the generic accessor is handed to the caller; the reads that follow are
\* issued from accessors of a known class
FollowGeneric ==
    /\ self.cls # "none"
    /\ \E offset \in PtrOffsets :
        /\ res' = Call("follow_generic", self, offset, 0,
                       _follow_generic_pointer(self, offset))
        /\ UNCHANGED <<buf, segment_offsets, self, msg>>

Next ==
    \/ HostFromBuffer
    \/ ReadPrimitive
    \/ ReadStruct
    \/ ReadList
    \/ ReadString
    \/ ReadData
    \/ ReadGroup
    \/ FollowGeneric

Spec == Init /\ [][Next]_vars

TypeOK == self.cls \in {"none", "Blob"}

(* --------------------- what the message was built as ------------------- *)

\* the last read was issued on the main pointer of the message
OnMain == res.A + res.offset = msg.at

\* the landing pad (its first word, both its words) was written whole and
\* is not overwritten by the main pointer
PadIntact ==
    /\ msg.padat >= 0
    /\ msg.padat + 8 <= BufLen
    /\ msg.padat # msg.at
Pad1Intact ==
    /\ PadIntact
    /\ msg.padat + 16 <= BufLen
    /\ msg.padat + 8 # msg.at

\* the pointer the main pointer resolves to: itself, or for a far pointer
\* the pointer of its landing pad
Resolved ==
    IF msg.main.kind # "far" THEN msg.main
    ELSE IF msg.main.b = 0 /\ PadIntact THEN msg.pad
    ELSE IF msg.main.b = 1 /\ Pad1Intact THEN msg.pad1
    ELSE PtrSpec("unresolved", 0, 0, 0)

\* v is the little-endian value of the `size` bytes at position pos: digit
\* by digit (for 8 bytes v is the digits themselves)
Pow256(i) == IF i = 0 THEN 1 ELSE IF i = 1 THEN 256 ELSE IF i = 2 THEN 65536 ELSE 16777216
IsValueAt(v, pos, size) ==
    IF size = 8 THEN \A i \in 1..8 : v[i] = buf[pos + i]
    ELSE \A i \in 1..size : (v \div Pow256(i - 1)) % 256 = buf[pos + i]

ListReads == {"read_list", "read_string", "read_data"}
PtrReads == {"read_struct"} \cup ListReads

IsError(out, exc, ats) == out.tag = "raise" /\ out.exc = exc /\ out.at \in ats

(* ------------------------------ claims --------------------------------- *)

\* C1: a read of a struct, list, text or data field whose 8-byte pointer
\* word is all zero returns None: no accessor, no bytes, no error.
NullWordAt(pos) ==
    /\ pos >= 0
    /\ pos + 8 <= Len(buf)
    /\ \A i \in 1..8 : buf[pos + i] = 0
C1_NullYieldsNone ==
    (res.op \in PtrReads /\ NullWordAt(res.A + res.offset))
        => res.out.tag = "None"
C1_Witness ==
    /\ res.op = "read_string"
    /\ res.A = 8
    /\ NullWordAt(res.A + res.offset)
    /\ res.out.tag = "None"

\* C2: read_struct on a valid near struct pointer at A + p with word offset k
\* returns the accessor at A + p + 8 + 8*k, and a primitive read at f on that
\* accessor yields the little-endian value of the bytes at A + p + 8 + 8*k + f.
NearTarget == msg.at + 8 + 8 * msg.main.off
ValidNearStruct ==
    /\ msg.main.kind = "struct"
    /\ NearTarget >= 0
    /\ NearTarget < BufLen
C2_NearStruct ==
    /\ (res.op = "read_struct" /\ OnMain /\ ValidNearStruct)
        => /\ res.out.tag = "ok"
           /\ res.out.val._offset = NearTarget
           /\ self._offset = NearTarget
           /\ self.op = "read_struct"
           /\ self.at = msg.at
    /\ (/\ res.op = "read_primitive"
        /\ self.op = "read_struct" /\ self.at = msg.at /\ ValidNearStruct
        /\ NearTarget + res.offset + res.size <= BufLen)
        => /\ res.A = NearTarget
           /\ res.out.tag = "ok"
           /\ IsValueAt(res.out.val, NearTarget + res.offset, res.size)
C2_Witness ==
    /\ res.op = "read_primitive"
    /\ self.op = "read_struct" /\ self.at = msg.at /\ ValidNearStruct
    /\ msg.at = 8 /\ msg.main.off = 1
    /\ res.offset = 3 /\ res.size = 4
    /\ res.out.tag = "ok"
    /\ res.out.val = 28 + 29 * 256 + 30 * 65536 + 31 * 16777216

\* C3 (as claimed): read_struct on a single far pointer into segment 1, word
\* W, whose landing pad is a struct pointer with word offset R, returns the
\* accessor at B + 8*W + 8*R whatever accessor the read was issued from.
FarToStruct ==
    /\ msg.main.kind = "far" /\ msg.main.b = 0 /\ msg.main.a = 1
    /\ PadIntact
    /\ msg.pad.kind = "struct"
C3_FarStructAsClaimed ==
    (res.op = "read_struct" /\ OnMain /\ FarToStruct /\ res.out.tag = "ok")
        => res.out.val._offset =
               segment_offsets[2] + 8 * msg.main.off + 8 * msg.pad.off

\* C4: for a near list pointer of one-byte elements with count N >= 1 whose
\* bytes [S, S+N) lie in the buffer, read_string returns the N-1 bytes
\* buf[S .. S+N-1) and read_data the N bytes buf[S .. S+N).
ByteList ==
    /\ msg.main.kind = "list" /\ msg.main.a = ListPtr_SIZE_8
ListStart == msg.at + 8 + 8 * msg.main.off
ListInside ==
    /\ ByteList
    /\ msg.main.b >= 1
    /\ ListStart >= 0
    /\ ListStart + msg.main.b <= BufLen
C4_TextAndData ==
    /\ (res.op = "read_string" /\ OnMain /\ ListInside)
        => /\ res.out.tag = "ok"
           /\ res.out.val = [i \in 1..(msg.main.b - 1) |-> buf[ListStart + i]]
    /\ (res.op = "read_data" /\ OnMain /\ ListInside)
        => /\ res.out.tag = "ok"
           /\ res.out.val = [i \in 1..msg.main.b |-> buf[ListStart + i]]
C4_Witness ==
    /\ res.op = "read_string" /\ OnMain /\ ListInside
    /\ msg.main.b = 3
    /\ buf[ListStart + 1] = 104 /\ buf[ListStart + 2] = 105 /\ buf[ListStart + 3] = 0
    /\ res.out.tag = "ok"
    /\ res.out.val = <<104, 105>>

\* C5 (as claimed): read_primitive(o, w) on the accessor at A fails with a
\* bounds error whenever the byte range [A+o, A+o+w) is not entirely inside
\* the buffer, and a value it returns is the value of the bytes of that range.
C5_PrimitiveBoundsAsClaimed ==
    res.op = "read_primitive" =>
        /\ (res.A + res.offset < 0 \/ res.A + res.offset + res.size > Len(buf))
            => IsError(res.out, "struct.error", {"blob.py:32"})
        /\ res.out.tag = "ok"
            => /\ res.A + res.offset >= 0
               /\ res.A + res.offset + res.size <= Len(buf)
               /\ IsValueAt(res.out.val, res.A + res.offset, res.size)

\* C6 (as claimed): follow_generic resolves a far pointer first: when the
\* pointer, directly or through its landing pad, is a struct pointer the
\* result is a generic struct accessor with that pointer's sizes, when it is
\* a list pointer a list accessor with that pointer's tag and count, and the
\* kind error is raised only when the resolved kind is neither.
IsKindError(out) ==
    \/ IsError(out, "AssertionError", {"blob.py:107", "blob.py:117", "blob.py:136"})
    \/ IsError(out, "ValueError", {"spec:4.1"})
    \/ IsError(out, "DecodeError", {"spec:4.2"})
C6_GenericAsClaimed ==
    (res.op = "follow_generic" /\ OnMain) =>
        /\ Resolved.kind = "struct" =>
            /\ ~IsKindError(res.out)
            /\ res.out.tag = "ok" =>
                /\ res.out.val.cls = "GenericStruct"
                /\ res.out.val.data_size = Resolved.a
                /\ res.out.val.ptrs_size = Resolved.b
        /\ Resolved.kind = "list" =>
            /\ ~IsKindError(res.out)
            /\ res.out.tag = "ok" =>
                /\ res.out.val.cls = "List"
                /\ res.out.val.size_tag = Resolved.a
                /\ res.out.val.item_count = Resolved.b

\* C7: read_string and read_data on a list pointer, near or reached through
\* a far pointer, whose size tag is not one-byte elements fail with the size
\* tag error and return no bytes.
C7_SizeTagMismatch ==
    (/\ res.op \in {"read_string", "read_data"} /\ OnMain
     /\ Resolved.kind = "list" /\ Resolved.a # ListPtr_SIZE_8)
        => IsError(res.out, "AssertionError",
                   IF res.op = "read_string" THEN {"blob.py:66"} ELSE {"blob.py:75"})
C7_Witness ==
    /\ res.op = "read_data" /\ OnMain
    /\ msg.main.kind = "far"
    /\ Resolved.kind = "list" /\ Resolved.a = 5
    /\ res.out.tag = "raise"

\* C8: read_struct on a non-null pointer whose kind, after one far pointer
\* is resolved, is not struct, and the list, text and data reads on one whose
\* resolved kind is not list, fail with the kind error and build no accessor.
C8_KindMismatch ==
    /\ (res.op = "read_struct" /\ OnMain /\ Resolved.kind \in {"list", "far", "other"})
        => \/ IsError(res.out, "AssertionError", {"blob.py:117"})
           \/ IsError(res.out, "DecodeError", {"spec:4.2"})
    /\ (res.op \in ListReads /\ OnMain /\ msg.main.kind # "null"
        /\ Resolved.kind \in {"struct", "far", "other", "null"})
        => \/ IsError(res.out, "AssertionError", {"blob.py:136"})
           \/ IsError(res.out, "DecodeError", {"spec:4.2"})
C8_Witness ==
    /\ res.op = "read_struct" /\ OnMain
    /\ msg.main.kind = "far" /\ msg.main.b = 0
    /\ Resolved.kind = "list"
    /\ res.out.tag = "raise"

\* C9: every accessor lies inside the buffer: construction at an offset
\* >= len(buf) fails, for the host as for read_struct and read_group.
C9_AccessorInBuffer ==
    /\ self.cls # "none" => self._offset < Len(buf)
    /\ (res.op \in {"from_buffer", "read_struct", "read_group"} /\ res.out.tag = "ok")
        => res.out.val._offset < Len(buf)
    /\ (res.op = "from_buffer" /\ res.A >= Len(buf)) => res.out.tag = "raise"
    /\ (res.op = "read_struct" /\ OnMain /\ msg.main.kind = "struct"
        /\ NearTarget >= Len(buf))
        => IsError(res.out, "AssertionError", {"blob.py:27"})
C9_Witness ==
    /\ res.op = "read_struct" /\ OnMain /\ msg.main.kind = "struct"
    /\ NearTarget >= Len(buf)
    /\ res.out.tag = "raise"
    /\ self.cls = "Blob"

\* C10 (as claimed): read_string and read_data on a one-byte list whose
\* bytes [S, S+N) run past the end of the buffer fail with a bounds error.
C10_SliceBoundsAsClaimed ==
    (/\ res.op \in {"read_string", "read_data"} /\ OnMain
     /\ ByteList /\ ListStart >= 0
     /\ ListStart + msg.main.b > BufLen)
        => res.out.tag = "raise"

====
